---- MODULE Spec2Model ----
(***************************************************************************)
(* A model of python-powerdns: the RRSet value objects (construction and   *)
(* canonicalization, powerdns/models.py and the dict-based RRSet of        *)
(* powerdns/interface.py) and the read-through caches of the endpoint /    *)
(* server / zone hierarchy (powerdns/interface.py).                        *)
(*                                                                         *)
(* Python strings are sequences of one-character strings, so that          *)
(* str.endswith and "+=" are computed and not assumed.  Python values of   *)
(* different types are records tagged by the field py.                     *)
(***************************************************************************)
EXTENDS Integers, Sequences, FiniteSets, TLC

\* ------------------------------------------------------------------ bounds
\* longest name / zone string handed to the RRSet operations
MaxLen == 2
\* longest records list handed to the RRSet constructor
MaxRecs == 2

\* ------------------------------------------------------------ Python values
Chars == {"a", "."}

RECURSIVE StrUpTo(_)
StrUpTo(n) ==
    IF n = 0 THEN {<<>>}
    ELSE LET S == StrUpTo(n - 1)
         IN  S \cup {Append(s, c) : s \in {t \in S : Len(t) = n - 1}, c \in Chars}

RECURSIVE SeqUpTo(_, _)
SeqUpTo(S, n) ==
    IF n = 0 THEN {<<>>}
    ELSE LET T == SeqUpTo(S, n - 1)
         IN  T \cup {Append(s, x) : s \in {t \in T : Len(t) = n - 1}, x \in S}

PyNone == [py |-> "None"]
PyStr(s) == [py |-> "str", s |-> s]
PyBool(b) == [py |-> "bool", b |-> b]
PyInt == [py |-> "int"]
PySeq(items) == [py |-> "seq", items |-> items]
\* a mapping: its key set, and the values under content and disabled
PyDict(keys, c, d) == [py |-> "dict", keys |-> keys, content |-> c, disabled |-> d]
\* an instance of models.Record
RecordObj(c, d) == [py |-> "Record", content |-> c, disabled |-> d]

\* the outcome of a call: a returned value or a raised exception
Ok(v) == [ok |-> TRUE, val |-> v]
Raise(e) == [ok |-> FALSE, err |-> e]

\* str.endswith
endswith(s, suf) ==
    Len(suf) <= Len(s) /\ SubSeq(s, Len(s) - Len(suf) + 1, Len(s)) = suf

Dot == <<".">>

\* ------------------------------------------------------------------ RRSet
\* One element of RRSet.records after construction.  extra is TRUE when the
\* dict-based RRSet kept a caller's mapping that carries an unknown key.
Rec(c, d, x) == [content |-> c, disabled |-> d, extra |-> x]

KnownKeys == {"content", "disabled"}

\* models.RRSet.validate_records: the pre-validator run on each element.
\* Record(**v) ignores keys that are no field of Record (pydantic's default).
validate_records(v) ==
    IF v.py = "dict" THEN
        IF KnownKeys \subseteq v.keys /\ v.keys # KnownKeys THEN Raise("ValueError")
        ELSE IF "content" \notin v.keys THEN Raise("ValueError")
        ELSE Ok(Rec(v.content, IF "disabled" \in v.keys THEN v.disabled ELSE FALSE, FALSE))
    ELSE IF v.py = "seq" THEN
        IF Len(v.items) < 2 THEN Raise("IndexError")
        ELSE Ok(Rec(v.items[1].s, v.items[2].b, FALSE))
    ELSE IF v.py = "str" THEN Ok(Rec(v.s, FALSE, FALSE))
    ELSE Raise("ValueError")

\* The element loop of the dict-based RRSet.__init__.
legacy_record(v) ==
    IF v.py = "dict" THEN
        IF KnownKeys \subseteq v.keys /\ v.keys # KnownKeys THEN Raise("ValueError")
        ELSE IF "content" \notin v.keys THEN Raise("ValueError")
        ELSE Ok(Rec(v.content, IF "disabled" \in v.keys THEN v.disabled ELSE FALSE,
                    ~(v.keys \subseteq KnownKeys)))
    ELSE IF v.py = "seq" THEN
        IF Len(v.items) < 2 THEN Raise("IndexError")
        ELSE Ok(Rec(v.items[1].s, v.items[2].b, FALSE))
    ELSE Ok(Rec(v.s, FALSE, FALSE))

\* An RRSet object.  cls is "pydantic" (models.RRSet) or "dict" (the RRSet of
\* interface.py / old_models.py).
RRSetObj(cls, name, rtype, changetype, records) ==
    [py |-> "RRSet", cls |-> cls, name |-> name, rtype |-> rtype,
     changetype |-> changetype, records |-> records]

\* models.RRSet(name=, type=, records=, changetype=): every element goes through
\* validate_records.  An exception that is no ValueError leaves the validation
\* as it is; ValueErrors are collected into one ValidationError.
RRSet_new(name, rtype, records, changetype) ==
    LET out == [i \in 1..Len(records) |-> validate_records(records[i])]
    IN  IF \E i \in 1..Len(records) : ~out[i].ok /\ out[i].err = "IndexError"
        THEN Raise("IndexError")
        ELSE IF \E i \in 1..Len(records) : ~out[i].ok
        THEN Raise("ValidationError")
        ELSE Ok(RRSetObj("pydantic", name, rtype, changetype,
                         [i \in 1..Len(records) |-> out[i].val]))

\* interface.RRSet.__init__: the loop stops at the first element that raises.
legacy_init(name, rtype, records, changetype) ==
    LET out == [i \in 1..Len(records) |-> legacy_record(records[i])]
        bad == {i \in 1..Len(records) : ~out[i].ok}
    IN  IF bad # {}
        THEN Raise(out[CHOOSE i \in bad : \A j \in bad : i <= j].err)
        ELSE Ok(RRSetObj("dict", name, rtype, changetype,
                         [i \in 1..Len(records) |-> out[i].val]))

\* The keys of the JSON object one RRSet becomes on the wire.
WireKeys == {"name", "type", "ttl", "changetype", "records", "comments"}

\* json.dumps of a dict-based RRSet (client.request dumps the data it is given):
\* the keys __init__ set; a record mapping the caller gave is dumped with every
\* key it carries.  No comments are given, so comments is the empty list.
json_dumps(rrset) ==
    [keys |-> WireKeys, name |-> rrset.name, type |-> rrset.rtype,
     changetype |-> rrset.changetype,
     records |-> [i \in 1..Len(rrset.records) |->
                    [keys |-> IF rrset.records[i].extra
                              THEN KnownKeys \cup {"foo"} ELSE KnownKeys,
                     content |-> rrset.records[i].content,
                     disabled |-> rrset.records[i].disabled]],
     comments |-> <<>>]

\* models.RRSet.model_dump_json(by_alias=...): the field rtype is dumped under
\* its alias type only when by_alias is set; every Record has its two fields.
model_dump_json(rrset, by_alias) ==
    [keys |-> IF by_alias THEN WireKeys
              ELSE (WireKeys \ {"type"}) \cup {"rtype"},
     name |-> rrset.name, type |-> rrset.rtype,
     changetype |-> rrset.changetype,
     records |-> [i \in 1..Len(rrset.records) |->
                    [keys |-> KnownKeys,
                     content |-> rrset.records[i].content,
                     disabled |-> rrset.records[i].disabled]],
     comments |-> <<>>]

\* "x += '.' + zone" when x does not end in '.'
canonical(x, zone) == IF endswith(x, Dot) THEN x ELSE x \o Dot \o zone

\* RRSet.ensure_canonical (models.py raises ValueError, the dict-based class
\* PDNSCanonicalError).  The result holds the outcome and the object after it.
ensure_canonical_all_types(rrset, zone) ==
    IF ~endswith(zone, Dot)
    THEN [out |-> Raise(IF rrset.cls = "pydantic" THEN "ValueError" ELSE "PDNSCanonicalError"),
          rrset |-> rrset]
    ELSE [out |-> Ok(PyNone),
          rrset |-> [rrset EXCEPT
                       !.name = canonical(@, zone),
                       !.records = [i \in 1..Len(@) |->
                                      [@[i] EXCEPT !.content = canonical(@, zone)]]]]

ensure_canonical_no_check(rrset, zone) ==
    [out |-> Ok(PyNone),
     rrset |-> [rrset EXCEPT
                  !.name = canonical(@, zone),
                  !.records = IF rrset.rtype = "CNAME"
                              THEN [i \in 1..Len(@) |->
                                      [@[i] EXCEPT !.content = canonical(@, zone)]]
                              ELSE @]]

ensure_canonical_always_append(rrset, zone) ==
    IF ~endswith(zone, Dot)
    THEN [out |-> Raise(IF rrset.cls = "pydantic" THEN "ValueError" ELSE "PDNSCanonicalError"),
          rrset |-> rrset]
    ELSE [out |-> Ok(PyNone),
          rrset |-> [rrset EXCEPT
                       !.name = @ \o Dot \o zone,
                       !.records = IF rrset.rtype = "CNAME"
                                   THEN [i \in 1..Len(@) |->
                                           [@[i] EXCEPT !.content = canonical(@, zone)]]
                                   ELSE @]]

ensure_canonical(rrset, zone) ==
    IF ~endswith(zone, Dot)
    THEN [out |-> Raise(IF rrset.cls = "pydantic" THEN "ValueError" ELSE "PDNSCanonicalError"),
          rrset |-> rrset]
    ELSE [out |-> Ok(PyNone),
          rrset |-> [rrset EXCEPT
                       !.name = canonical(@, zone),
                       !.records = IF rrset.rtype = "CNAME"
                                   THEN [i \in 1..Len(@) |->
                                           [@[i] EXCEPT !.content = canonical(@, zone)]]
                                   ELSE @]]

\* ------------------------------------------------- inputs of the RRSet part
Contents == {<<"a">>, <<"a", ".">>}

\* the shapes a caller can put in a records list: a str, sequences of one, two
\* and three items, mappings over every key set, Record instances, an int
RecordInputs ==
    {PyStr(c) : c \in Contents}
    \cup {PySeq(<<PyStr(<<"a">>)>>),
          PySeq(<<PyStr(<<"a">>), PyBool(TRUE)>>),
          PySeq(<<PyStr(<<"a", ".">>), PyBool(FALSE)>>),
          PySeq(<<PyStr(<<"a">>), PyBool(TRUE), PyStr(<<"a">>)>>)}
    \cup {PyDict(k, IF "content" \in k THEN <<"a">> ELSE <<>>, "disabled" \in k) :
            k \in SUBSET {"content", "disabled", "foo"}}
    \cup {RecordObj(<<"a">>, TRUE), RecordObj(<<"a", ".">>, FALSE)}
    \cup {PyInt}

\* what the dict-based RRSet documents as its records: str, tuple or dict
LegacyInputs == {v \in RecordInputs : v.py \in {"str", "seq", "dict"}}

RTypes == {"A", "CNAME"}
\* the names a caller gives an RRSet: relative, canonical, empty, the root
Names == {<<"a">>, <<"a", ".">>, <<>>, <<".">>}

VARIABLES
    rrArgs,     \* the constructor arguments, until the object is first used
    rr,         \* the RRSet object the caller holds, or PyNone
    rrCall,     \* the last call on the RRSet part: [op, zone, out, before, rel]
    epServers,  \* PDNSEndpoint._servers
    srvConfig,  \* PDNSServer._config
    srvZones,   \* PDNSServer._zones: None or the list of PDNSZone objects
    pdnsZone,   \* the PDNSZone object the caller holds, or PyNone
    lastCall,   \* the last call: [op, arg, reqs, out, after, cached]
    prevCall    \* the call before it: [op, res, cached]

rrVars == <<rrArgs, rr, rrCall>>
mainVars == <<epServers, srvConfig, srvZones, pdnsZone, lastCall, prevCall>>
vars == <<rrArgs, rr, rrCall, epServers, srvConfig, srvZones, pdnsZone, lastCall, prevCall>>

NoArgs == [name |-> <<>>, rtype |-> "A", records |-> <<>>, cls |-> "none"]
\* before is the object before the call; rel relates the call to the call
\* before it on the same object: "first" after the construction, "failed" after
\* a call that raised, "same" / "other" after a successful ensure_canonical
\* with the same / another zone
\* grew tells whether the call before it was an ensure_canonical that
\* appended its zone to the name, and then holds that zone and the name it
\* found
NoGrowth == [did |-> FALSE, name |-> <<>>, zone |-> <<>>]
Growth(call) ==
    IF call.op = "ensure_canonical" /\ call.out.ok /\ ~endswith(call.before.name, Dot)
    THEN [did |-> TRUE, name |-> call.before.name, zone |-> call.zone]
    ELSE NoGrowth
NoCall == [op |-> "none", zone |-> <<>>, out |-> Ok(PyNone), before |-> PyNone,
           rel |-> "first", grew |-> NoGrowth]
Rel(call, zone) ==
    IF call.op # "ensure_canonical" THEN "first"
    ELSE IF ~call.out.ok THEN "failed"
    ELSE IF call.zone = zone THEN "same" ELSE "other"

\* the constructor arguments a caller can write, for either class
RRSetArgs ==
    [name : Names, rtype : RTypes, cls : {"pydantic"},
     records : SeqUpTo(RecordInputs, MaxRecs)]
    \cup [name : Names, rtype : RTypes, cls : {"dict"},
          records : SeqUpTo(LegacyInputs, MaxRecs)]

\* rr = RRSet(name, rtype, records) of either class
Construct ==
    /\ rrCall.op = "none"
    /\ LET out == IF rrArgs.cls = "pydantic"
                  THEN RRSet_new(rrArgs.name, rrArgs.rtype, rrArgs.records, "REPLACE")
                  ELSE legacy_init(rrArgs.name, rrArgs.rtype, rrArgs.records, "REPLACE")
       IN  /\ rr' = IF out.ok THEN out.val ELSE PyNone
           /\ rrCall' = [op |-> "init", zone |-> <<>>,
                         out |-> IF out.ok THEN Ok(PyNone) ELSE out, before |-> PyNone,
                         rel |-> "first", grew |-> NoGrowth]
    /\ UNCHANGED rrArgs
    /\ UNCHANGED mainVars

\* rr.ensure_canonical(zone)
EnsureCanonical(zone) ==
    /\ rr # PyNone
    /\ LET r == ensure_canonical(rr, zone)
       IN  /\ rr' = r.rrset
           /\ rrCall' = [op |-> "ensure_canonical", zone |-> zone, out |-> r.out,
                         before |-> rr, rel |-> Rel(rrCall, zone),
                         grew |-> Growth(rrCall)]
    /\ rrArgs' = NoArgs
    /\ UNCHANGED mainVars

\* the wire form of rr: rr.model_dump_json(by_alias=True) for a models.RRSet,
\* json.dumps(rr) for the dict-based one
Serialize ==
    /\ rr # PyNone
    /\ rrCall.op # "serialize"
    /\ rrCall' = [op |-> "serialize", zone |-> <<>>,
                  out |-> Ok(IF rr.cls = "pydantic" THEN model_dump_json(rr, TRUE)
                             ELSE json_dumps(rr)),
                  before |-> rr, rel |-> "first", grew |-> NoGrowth]
    /\ rrArgs' = NoArgs
    /\ UNCHANGED rr
    /\ UNCHANGED mainVars

\* the zone strings ensure_canonical is called with
ZoneArgs == StrUpTo(MaxLen)

NextRRSet ==
    \/ Construct
    \/ \E zone \in ZoneArgs : EnsureCanonical(zone)
    \/ Serialize

\* --------------------------------------- endpoint, server and zone objects
\* most zones one answer to GET /servers/{sid}/zones lists
MaxZones == 2
\* longest rrsets list handed to create_records / delete_records
MaxRRSets == 2

PyList(items) == [py |-> "list", items |-> items]
\* a JSON object of the API, told apart by id; Blob(0) is the empty object {}
Blob(id) == [py |-> "dict", id |-> id]
\* the JSON object describing a zone
ZoneData(name) == [py |-> "dict", id |-> 1, name |-> name]

\* Python's truth value of v, as "if not self._x" and "if zone_data" take it
Truthy(v) ==
    IF v.py = "None" THEN FALSE
    ELSE IF v.py = "list" THEN v.items # <<>>
    ELSE IF v.py = "dict" THEN v.id # 0
    ELSE IF v.py = "str" THEN v.s # <<>>
    ELSE TRUE

\* the paths the objects request: /servers, {server.url}/config,
\* {server.url}/zones, {server.url}/zones/{name}
Url(kind, name) == [kind |-> kind, name |-> name]
\* one request the transport saw, with what it answered
Req(method, url, body, resp) == [method |-> method, url |-> url, body |-> body, resp |-> resp]

\* PDNSZone.__init__: the name of the zone data, no details cached
PDNSZone(api_data) == [py |-> "PDNSZone", name |-> api_data.name, details |-> PyNone]

PDNSError == Raise("PDNSError")

\* PDNSEndpoint.servers; resp is the transport's answer should a GET be issued.
\* The result holds the cache after the read, the requests issued and the outcome.
servers(cache, resp) ==
    IF ~Truthy(cache)
    THEN IF resp.ok
         THEN [cache |-> resp.val,
               reqs |-> <<Req("GET", Url("servers", <<>>), PyNone, resp)>>,
               out |-> Ok(resp.val)]
         ELSE [cache |-> cache,
               reqs |-> <<Req("GET", Url("servers", <<>>), PyNone, resp)>>,
               out |-> resp]
    ELSE [cache |-> cache, reqs |-> <<>>, out |-> Ok(cache)]

\* PDNSServer.config
config(cache, resp) ==
    IF ~Truthy(cache)
    THEN IF resp.ok
         THEN [cache |-> resp.val,
               reqs |-> <<Req("GET", Url("config", <<>>), PyNone, resp)>>,
               out |-> Ok(resp.val)]
         ELSE [cache |-> cache,
               reqs |-> <<Req("GET", Url("config", <<>>), PyNone, resp)>>,
               out |-> resp]
    ELSE [cache |-> cache, reqs |-> <<>>, out |-> Ok(cache)]

\* PDNSServer.zones: every element of the answer becomes a PDNSZone
zones_caches_failure(cache, resp) ==
    IF ~Truthy(cache)
    THEN IF resp.ok
         THEN LET new == PyList([i \in 1..Len(resp.val.items) |-> PDNSZone(resp.val.items[i])])
              IN  [cache |-> new,
                   reqs |-> <<Req("GET", Url("zones", <<>>), PyNone, resp)>>,
                   out |-> Ok(new)]
         ELSE [cache |-> PyList(<<>>),
               reqs |-> <<Req("GET", Url("zones", <<>>), PyNone, resp)>>,
               out |-> resp]
    ELSE [cache |-> cache, reqs |-> <<>>, out |-> Ok(cache)]

zones(cache, resp) ==
    IF ~Truthy(cache)
    THEN IF resp.ok
         THEN LET new == PyList([i \in 1..Len(resp.val.items) |-> PDNSZone(resp.val.items[i])])
              IN  [cache |-> new,
                   reqs |-> <<Req("GET", Url("zones", <<>>), PyNone, resp)>>,
                   out |-> Ok(new)]
         ELSE [cache |-> cache,
               reqs |-> <<Req("GET", Url("zones", <<>>), PyNone, resp)>>,
               out |-> resp]
    ELSE [cache |-> cache, reqs |-> <<>>, out |-> Ok(cache)]

\* PDNSZone.details on the zone object zone; the result holds the object after
details(zone, resp) ==
    IF ~Truthy(zone.details)
    THEN IF resp.ok
         THEN [zone |-> [zone EXCEPT !.details = resp.val],
               reqs |-> <<Req("GET", Url("zone", zone.name), PyNone, resp)>>,
               out |-> Ok(resp.val)]
         ELSE [zone |-> zone,
               reqs |-> <<Req("GET", Url("zone", zone.name), PyNone, resp)>>,
               out |-> resp]
    ELSE [zone |-> zone, reqs |-> <<>>, out |-> Ok(zone.details)]

\* a zone of the server's list, as a caller holds it: its place and its name
ZoneRef(i, zone) == [py |-> "PDNSZone", at |-> i, name |-> zone.name]

\* PDNSServer.get_zone: the first zone of self.zones with that name, or None
get_zone(cache, name, resp) ==
    LET z == zones(cache, resp)
    IN  IF ~z.out.ok THEN z
        ELSE LET items == z.cache.items
                 hits == {i \in 1..Len(items) : items[i].name = name}
             IN  [z EXCEPT !.out =
                    IF hits = {} THEN Ok(PyNone)
                    ELSE LET i == CHOOSE h \in hits : \A k \in hits : h <= k
                         IN  Ok(ZoneRef(i, items[i]))]

\* PDNSServer.suggest_zone: max(..., key=len(name), default=None) keeps the
\* first of the longest names
suggest_zone_last(cache, r_name, resp) ==
    IF ~endswith(r_name, Dot)
    THEN [cache |-> cache, reqs |-> <<>>, out |-> Raise("PDNSCanonicalError")]
    ELSE LET z == zones(cache, resp)
         IN  IF ~z.out.ok THEN z
             ELSE LET items == z.cache.items
                      hits == {i \in 1..Len(items) : endswith(r_name, items[i].name)}
                  IN  [z EXCEPT !.out =
                         IF hits = {} THEN Ok(PyNone)
                         ELSE LET i == CHOOSE h \in hits : \A k \in hits :
                                          \/ Len(items[k].name) < Len(items[h].name)
                                          \/ Len(items[k].name) = Len(items[h].name) /\ k <= h
                              IN  Ok(ZoneRef(i, items[i]))]

suggest_zone(cache, r_name, resp) ==
    IF ~endswith(r_name, Dot)
    THEN [cache |-> cache, reqs |-> <<>>, out |-> Raise("PDNSCanonicalError")]
    ELSE LET z == zones(cache, resp)
         IN  IF ~z.out.ok THEN z
             ELSE LET items == z.cache.items
                      hits == {i \in 1..Len(items) : endswith(r_name, items[i].name)}
                  IN  [z EXCEPT !.out =
                         IF hits = {} THEN Ok(PyNone)
                         ELSE LET i == CHOOSE h \in hits : \A k \in hits :
                                          \/ Len(items[k].name) < Len(items[h].name)
                                          \/ Len(items[k].name) = Len(items[h].name) /\ h <= k
                              IN  Ok(ZoneRef(i, items[i]))]

\* the payload create_zone builds
ZonePayload(name) == [py |-> "dict", id |-> 1, name |-> name]

\* PDNSServer.create_zone.  In update mode the zone found by get_zone is asked
\* for its id, an attribute no PDNSZone (and no None) has.  zresp answers the
\* GET self.zones may issue, resp the POST.
create_zone_keeps_cache(cache, name, update, zresp, resp) ==
    IF update
    THEN LET z == get_zone(cache, name, zresp)
         IN  IF ~z.out.ok THEN z ELSE [z EXCEPT !.out = Raise("AttributeError")]
    ELSE LET req == <<Req("POST", Url("zones", <<>>), ZonePayload(name), resp)>>
         IN  IF ~resp.ok THEN [cache |-> cache, reqs |-> req, out |-> resp]
             ELSE IF Truthy(resp.val)
             THEN [cache |-> cache, reqs |-> req, out |-> Ok(PDNSZone(resp.val))]
             ELSE [cache |-> cache, reqs |-> req, out |-> Ok(PyNone)]

create_zone(cache, name, update, zresp, resp) ==
    IF update
    THEN LET z == get_zone(cache, name, zresp)
         IN  IF ~z.out.ok THEN z ELSE [z EXCEPT !.out = Raise("AttributeError")]
    ELSE LET req == <<Req("POST", Url("zones", <<>>), ZonePayload(name), resp)>>
         IN  IF ~resp.ok THEN [cache |-> cache, reqs |-> req, out |-> resp]
             ELSE IF Truthy(resp.val)
             THEN [cache |-> PyNone, reqs |-> req, out |-> Ok(PDNSZone(resp.val))]
             ELSE [cache |-> cache, reqs |-> req, out |-> Ok(PyNone)]

\* PDNSServer.delete_zone: the cache is reset before the DELETE is issued
delete_zone_resets_after(cache, name, resp) ==
    [cache |-> IF resp.ok THEN PyNone ELSE cache,
     reqs |-> <<Req("DELETE", Url("zone", name), PyNone, resp)>>,
     out |-> resp]

delete_zone(cache, name, resp) ==
    [cache |-> PyNone,
     reqs |-> <<Req("DELETE", Url("zone", name), PyNone, resp)>>,
     out |-> resp]

\* what json.load reads from a file PDNSZone.backup wrote: the zone's data
BackupData(name, nameservers) ==
    [py |-> "dict", id |-> 1, name |-> name, nameservers |-> nameservers]

restore_zone_swallows(cache, file, resp) ==
    IF ~file.ok THEN [cache |-> cache, reqs |-> <<>>, out |-> file]
    ELSE [cache |-> PyNone,
          reqs |-> <<Req("POST", Url("zones", <<>>),
                         [file.val EXCEPT !.nameservers = <<>>], resp)>>,
          out |-> IF resp.ok /\ Truthy(resp.val) THEN Ok(PDNSZone(resp.val)) ELSE Ok(PyNone)]

\* PDNSServer.restore_zone.  file is what opening and loading json_file gives;
\* the cache is reset and nameservers emptied before the POST, whose error
\* nothing catches.
restore_zone(cache, file, resp) ==
    IF ~file.ok THEN [cache |-> cache, reqs |-> <<>>, out |-> file]
    ELSE LET req == <<Req("POST", Url("zones", <<>>),
                          [file.val EXCEPT !.nameservers = <<>>], resp)>>
         IN  IF ~resp.ok THEN [cache |-> PyNone, reqs |-> req, out |-> resp]
             ELSE IF Truthy(resp.val)
             THEN [cache |-> PyNone, reqs |-> req, out |-> Ok(PDNSZone(resp.val))]
             ELSE [cache |-> PyNone, reqs |-> req, out |-> Ok(PyNone)]

\* The loop of create_records / delete_records from element i on:
\* rrset.ensure_canonical(self.name), then rrset['changetype'] = changetype,
\* an item assignment a models.RRSet does not support.  The loop stops at the
\* first exception and leaves the elements as they are by then.
RECURSIVE canonical_loop(_, _, _, _)
canonical_loop(rrsets, i, zone_name, changetype) ==
    IF i > Len(rrsets) THEN [rrsets |-> rrsets, out |-> Ok(PyNone)]
    ELSE LET e == ensure_canonical(rrsets[i], zone_name)
         IN  IF ~e.out.ok THEN [rrsets |-> rrsets, out |-> e.out]
             ELSE IF e.rrset.cls = "pydantic"
             THEN [rrsets |-> [rrsets EXCEPT ![i] = e.rrset], out |-> Raise("TypeError")]
             ELSE canonical_loop([rrsets EXCEPT ![i] = [e.rrset EXCEPT !.changetype = changetype]],
                                 i + 1, zone_name, changetype)

\* What create_records and delete_records share: the loop, then
\* self._details = None, then the PATCH of the whole list.
\* data={'rrsets': rrsets} as client.request dumps it
RRSetsBody(rrsets) ==
    [py |-> "dict", rrsets |-> [i \in 1..Len(rrsets) |-> json_dumps(rrsets[i])]]

patch_records_one_each(zone, rrsets, changetype, resp) ==
    LET l == canonical_loop(rrsets, 1, zone.name, changetype)
    IN  IF ~l.out.ok
        THEN [zone |-> zone, rrsets |-> l.rrsets, reqs |-> <<>>, out |-> l.out]
        ELSE [zone |-> [zone EXCEPT !.details = PyNone],
              rrsets |-> l.rrsets,
              reqs |-> [i \in 1..Len(l.rrsets) |->
                          Req("PATCH", Url("zone", zone.name),
                              RRSetsBody(<<l.rrsets[i]>>), resp)],
              out |-> resp]

patch_records_resets_first(zone, rrsets, changetype, resp) ==
    LET l == canonical_loop(rrsets, 1, zone.name, changetype)
    IN  IF ~l.out.ok
        THEN [zone |-> [zone EXCEPT !.details = PyNone],
              rrsets |-> l.rrsets, reqs |-> <<>>, out |-> l.out]
        ELSE [zone |-> [zone EXCEPT !.details = PyNone],
              rrsets |-> l.rrsets,
              reqs |-> <<Req("PATCH", Url("zone", zone.name), RRSetsBody(l.rrsets), resp)>>,
              out |-> resp]

patch_records(zone, rrsets, changetype, resp) ==
    LET l == canonical_loop(rrsets, 1, zone.name, changetype)
    IN  IF ~l.out.ok
        THEN [zone |-> zone, rrsets |-> l.rrsets, reqs |-> <<>>, out |-> l.out]
        ELSE [zone |-> [zone EXCEPT !.details = PyNone],
              rrsets |-> l.rrsets,
              reqs |-> <<Req("PATCH", Url("zone", zone.name), RRSetsBody(l.rrsets), resp)>>,
              out |-> resp]

\* PDNSZone.create_records
create_records_keeps_details(zone, rrsets, resp) ==
    [patch_records(zone, rrsets, "REPLACE", resp) EXCEPT !.zone = zone]
create_records(zone, rrsets, resp) == patch_records(zone, rrsets, "REPLACE", resp)

\* PDNSZone.delete_records
delete_records_replaces(zone, rrsets, resp) == patch_records(zone, rrsets, "REPLACE", resp)
delete_records(zone, rrsets, resp) == patch_records(zone, rrsets, "DELETE", resp)

\* PDNSZone.backup: the file is opened for writing, then what self.details
\* gives is dumped into it.  opened tells whether open() succeeded; written
\* holds what json.dump wrote.
backup_without_fetch(zone, opened, resp) ==
    IF ~opened THEN [zone |-> zone, reqs |-> <<>>, out |-> Raise("OSError"), written |-> <<>>]
    ELSE [zone |-> zone, reqs |-> <<>>, out |-> Ok(PyNone), written |-> <<zone.details>>]

backup(zone, opened, resp) ==
    IF ~opened THEN [zone |-> zone, reqs |-> <<>>, out |-> Raise("OSError"), written |-> <<>>]
    ELSE LET d == details(zone, resp)
         IN  IF d.out.ok
             THEN [zone |-> d.zone, reqs |-> d.reqs, out |-> Ok(PyNone), written |-> <<d.out.val>>]
             ELSE [zone |-> d.zone, reqs |-> d.reqs, out |-> d.out, written |-> <<>>]

\* ------------------------------------------------------- PDNSApiClient
\* The HTTP statuses a response can carry: the ones request tells apart and
\* some of the others.
Statuses == {200, 201, 202, 204, 302, 400, 404, 500}

\* The bodies a response can carry, by what response.json() makes of them: a
\* JSON object with some of the keys error, errors and another one; a JSON
\* list or string, with or without the text error in it; a JSON number; null;
\* and text that is no JSON.
JsonBody(kind, keys) == [py |-> "json", kind |-> kind, keys |-> keys]
Bodies ==
    {JsonBody("object", k) : k \in SUBSET {"error", "errors", "foo"}}
    \cup {JsonBody(j, {}) : j \in {"list", "list_with_error", "str", "str_with_error",
                                    "number", "null", "text"}}

Response(status_code, body, url) ==
    [py |-> "Response", status_code |-> status_code, body |-> body, url |-> url]

\* response.json()
json(response) ==
    IF response.body.kind = "text" THEN Raise("JSONDecodeError") ELSE Ok(response.body)

\* Python's "key in response" on the parsed body
contains(key, body) ==
    IF body.kind = "object" THEN Ok(key \in body.keys)
    ELSE IF body.kind \in {"list", "str"} THEN Ok(FALSE)
    ELSE IF body.kind \in {"list_with_error", "str_with_error"} THEN Ok(key = "error")
    ELSE Raise("TypeError")

\* what the error of a response says
Message(text, key) == [text |-> text, key |-> key]
\* response.get(key): only a JSON object has it
get(body, key) ==
    IF body.kind = "object" THEN Ok(Message("field", key)) ELSE Raise("AttributeError")

\* PDNSApiClient._get_error
get_error(body) ==
    LET e1 == contains("error", body)
        e2 == contains("errors", body)
    IN  IF ~e1.ok THEN e1
        ELSE IF e1.val THEN get(body, "error")
        ELSE IF ~e2.ok THEN e2
        ELSE IF e2.val THEN get(body, "errors")
        ELSE Ok(Message("No error message found", ""))

\* raise PDNSError(url=, status_code=, message=)
PDNSErrorOf(response, message) ==
    [ok |-> FALSE, err |-> "PDNSError", url |-> response.url,
     status_code |-> response.status_code, message |-> message]

\* PDNSApiClient.request, from the response on
request_no_404(response) ==
    IF response.status_code \in {200, 201} THEN json(response)
    ELSE IF response.status_code = 204 THEN Ok(PyStr(<<>>))
    ELSE LET parsed == json(response)
             found == IF parsed.ok THEN get_error(parsed.val) ELSE parsed
         IN  PDNSErrorOf(response, IF found.ok THEN found.val
                                   ELSE Message("response.text", ""))

request(response) ==
    IF response.status_code \in {200, 201} THEN json(response)
    ELSE IF response.status_code = 204 THEN Ok(PyStr(<<>>))
    ELSE IF response.status_code = 404
    THEN PDNSErrorOf(response, Message("Not found", ""))
    ELSE LET parsed == json(response)
             found == IF parsed.ok THEN get_error(parsed.val) ELSE parsed
         IN  PDNSErrorOf(response, IF found.ok THEN found.val
                                   ELSE Message("response.text", ""))

\* ------------------------------------------------ what the transport answers
ServerLists == {PyList(<<>>), PyList(<<"localhost">>)}
ConfigLists == {PyList(<<>>), PyList(<<"c1">>)}
\* zone names the server knows: the root and a zone below it
ZoneNames == {<<".">>, <<"a", ".">>}
\* the name of the zone object a caller holds: canonical, or relative
HeldZoneNames == {<<".">>, <<"a">>}
ZoneLists == {PyList([i \in 1..Len(s) |-> ZoneData(s[i])]) : s \in SeqUpTo(ZoneNames, MaxZones)}
DetailBlobs == {Blob(0), Blob(1), Blob(2)}
\* a mutation is answered by a zone object, by 204 (the empty string) or by an error
Empty204 == PyStr(<<>>)
Answers(S) == {Ok(v) : v \in S} \cup {PDNSError}
\* the answers to draw when a request is issued only if asked is TRUE
NoAnswer == Ok(PyNone)
AnswersIf(asked, S) == IF asked THEN S ELSE {NoAnswer}
ServersAnswers == Answers(ServerLists)
ConfigAnswers == Answers(ConfigLists)
ZonesAnswers == Answers(ZoneLists)
DetailsAnswers == Answers(DetailBlobs)
\* a PATCH of records and a DELETE are answered by 204 or by an error
MutationAnswers == Answers({Empty204})

\* the files restore_zone is given: the backup of a zone, and no file
BackupFiles ==
    {Ok(BackupData(<<"a", ".">>, <<"ns">>)), Raise("FileNotFoundError")}

\* the record names suggest_zone is asked about
RNames == {<<"a">>, <<".">>, <<"a", ".">>}

\* the RRSets a caller hands to create_records / delete_records
RRSetPool ==
    {RRSetObj("dict", <<"a">>, "CNAME", "DELETE", <<Rec(<<"a">>, FALSE, FALSE)>>),
     RRSetObj("dict", <<"a", ".">>, "A", "REPLACE", <<Rec(<<"a">>, TRUE, FALSE)>>),
     RRSetObj("pydantic", <<"a">>, "A", "REPLACE", <<Rec(<<"a">>, FALSE, FALSE)>>)}

RRSetLists == SeqUpTo(RRSetPool, MaxRRSets)


\* after holds the caller's rrsets once create_records / delete_records is
\* through with them; cached is the _details of the caller's zone object when
\* the call was made
Call(op, arg, reqs, out, after, cached) ==
    [op |-> op, arg |-> arg, reqs |-> reqs, out |-> out, after |-> after,
     cached |-> cached]
FirstCall == Call("none", PyNone, <<>>, Ok(PyNone), <<>>, PyNone)
\* res: "value" for a truthy return, "empty" for a falsy one, "raised"
Res(out) == IF ~out.ok THEN "raised" ELSE IF Truthy(out.val) THEN "value" ELSE "empty"
Brief(call) == [op |-> call.op, res |-> Res(call.out), cached |-> call.cached]

InitMain ==
    /\ epServers = PyNone
    /\ srvConfig = PyNone
    /\ srvZones = PyNone
    /\ lastCall = FirstCall
    /\ prevCall = Brief(FirstCall)

Init == InitMain /\ pdnsZone = PyNone /\ rrArgs = NoArgs /\ rr = PyNone /\ rrCall = NoCall
\* the zone part starts from one PDNSZone object, as PDNSZone.__init__ leaves it
InitZone ==
    /\ pdnsZone \in {PDNSZone(ZoneData(name)) : name \in HeldZoneNames}
    /\ InitMain
    /\ rrArgs = NoArgs /\ rr = PyNone /\ rrCall = NoCall

\* a zone object whose details were read and answered by blob, or not read
ZoneWith(name, blob) == [PDNSZone(ZoneData(name)) EXCEPT !.details = blob]
\* the zone list a server holds once zones was read and details was read on
\* some of its zones
ListedZones ==
    {PyList(<<ZoneWith(<<".">>, PyNone)>>),
     PyList(<<ZoneWith(<<"a", ".">>, Blob(1)), ZoneWith(<<".">>, PyNone)>>)}
\* a program that read none of the caches, or all of them, before and holds a zone object of
\* its own, such as the one create_zone returned
InitFrame ==
    /\ epServers \in {PyNone, PyList(<<"localhost">>)}
    /\ srvConfig = (IF epServers = PyNone THEN PyNone ELSE PyList(<<"c1">>))
    /\ srvZones \in (IF epServers = PyNone THEN {PyNone} ELSE ListedZones)
    /\ pdnsZone \in {ZoneWith(name, blob) : name \in HeldZoneNames, blob \in {PyNone, Blob(1)}}
    /\ lastCall = FirstCall
    /\ prevCall = Brief(FirstCall)
    /\ rrArgs = NoArgs /\ rr = PyNone /\ rrCall = NoCall

\* the RRSet part starts from the arguments of one constructor call
InitRRSet ==
    /\ rrArgs \in RRSetArgs
    /\ rr = PyNone
    /\ rrCall = NoCall
    /\ InitMain
    /\ pdnsZone = PyNone

Done(op, arg, reqs, out, after) ==
    /\ lastCall' = Call(op, arg, reqs, out, after,
                         IF pdnsZone = PyNone THEN PyNone ELSE pdnsZone.details)
    /\ prevCall' = Brief(lastCall)
    /\ UNCHANGED rrVars

\* endpoint.servers
Servers ==
    \E resp \in AnswersIf(~Truthy(epServers), ServersAnswers) :
        LET r == servers(epServers, resp)
        IN  /\ epServers' = r.cache
            /\ Done("servers", PyNone, r.reqs, r.out, <<>>)
            /\ UNCHANGED <<srvConfig, srvZones, pdnsZone>>

\* server.config
Config ==
    \E resp \in AnswersIf(~Truthy(srvConfig), ConfigAnswers) :
        LET r == config(srvConfig, resp)
        IN  /\ srvConfig' = r.cache
            /\ Done("config", PyNone, r.reqs, r.out, <<>>)
            /\ UNCHANGED <<epServers, srvZones, pdnsZone>>

\* server.zones
Zones ==
    \E resp \in AnswersIf(~Truthy(srvZones), ZonesAnswers) :
        LET r == zones(srvZones, resp)
        IN  /\ srvZones' = r.cache
            /\ Done("zones", PyNone, r.reqs, r.out, <<>>)
            /\ UNCHANGED <<epServers, srvConfig, pdnsZone>>

\* server.get_zone(name)
GetZone ==
    \E name \in ZoneNames, resp \in AnswersIf(~Truthy(srvZones), ZonesAnswers) :
        LET r == get_zone(srvZones, name, resp)
        IN  /\ srvZones' = r.cache
            /\ Done("get_zone", PyStr(name), r.reqs, r.out, <<>>)
            /\ UNCHANGED <<epServers, srvConfig, pdnsZone>>

\* server.suggest_zone(r_name)
SuggestZone ==
    \E r_name \in RNames :
      \E resp \in AnswersIf(endswith(r_name, Dot) /\ ~Truthy(srvZones), ZonesAnswers) :
        LET r == suggest_zone(srvZones, r_name, resp)
        IN  /\ srvZones' = r.cache
            /\ Done("suggest_zone", PyStr(r_name), r.reqs, r.out, <<>>)
            /\ UNCHANGED <<epServers, srvConfig, pdnsZone>>

\* server.create_zone(name, kind, nameservers, update=update)
CreateZone ==
    \E name \in ZoneNames, update \in BOOLEAN :
      \E zresp \in AnswersIf(update /\ ~Truthy(srvZones), ZonesAnswers),
         resp \in AnswersIf(~update, Answers({ZoneData(name), Empty204})) :
        LET r == create_zone(srvZones, name, update, zresp, resp)
        IN  /\ srvZones' = r.cache
            /\ Done(IF update THEN "update_zone" ELSE "create_zone", PyStr(name),
                    r.reqs, r.out, <<>>)
            /\ UNCHANGED <<epServers, srvConfig, pdnsZone>>

\* server.delete_zone(name)
DeleteZone ==
    \E name \in ZoneNames, resp \in MutationAnswers :
        LET r == delete_zone(srvZones, name, resp)
        IN  /\ srvZones' = r.cache
            /\ Done("delete_zone", PyStr(name), r.reqs, r.out, <<>>)
            /\ UNCHANGED <<epServers, srvConfig, pdnsZone>>

\* server.restore_zone(json_file)
RestoreZone ==
    \E file \in BackupFiles :
      \E resp \in AnswersIf(file.ok, Answers({ZoneData(IF file.ok THEN file.val.name ELSE <<>>),
                                              Empty204})) :
        LET r == restore_zone(srvZones, file, resp)
        IN  /\ srvZones' = r.cache
            /\ Done("restore_zone", IF file.ok THEN file.val ELSE PyNone, r.reqs, r.out, <<>>)
            /\ UNCHANGED <<epServers, srvConfig, pdnsZone>>

\* zone.details
Details ==
    \E resp \in AnswersIf(~Truthy(pdnsZone.details), DetailsAnswers) :
        LET r == details(pdnsZone, resp)
        IN  /\ pdnsZone' = r.zone
            /\ Done("details", PyNone, r.reqs, r.out, <<>>)
            /\ UNCHANGED <<epServers, srvConfig, srvZones>>

\* zone.create_records(rrsets)
CreateRecords_resets_zones ==
    \E rrsets \in RRSetLists, resp \in MutationAnswers :
        LET r == create_records(pdnsZone, rrsets, resp)
        IN  /\ pdnsZone' = r.zone
            /\ srvZones' = PyNone
            /\ Done("create_records", PyList(rrsets), r.reqs, r.out, r.rrsets)
            /\ UNCHANGED <<epServers, srvConfig>>

CreateRecords ==
    \E rrsets \in RRSetLists, resp \in MutationAnswers :
        LET r == create_records(pdnsZone, rrsets, resp)
        IN  /\ pdnsZone' = r.zone
            /\ Done("create_records", PyList(rrsets), r.reqs, r.out, r.rrsets)
            /\ UNCHANGED <<epServers, srvConfig, srvZones>>

\* zone.delete_records(rrsets)
DeleteRecords ==
    \E rrsets \in RRSetLists, resp \in MutationAnswers :
        LET r == delete_records(pdnsZone, rrsets, resp)
        IN  /\ pdnsZone' = r.zone
            /\ Done("delete_records", PyList(rrsets), r.reqs, r.out, r.rrsets)
            /\ UNCHANGED <<epServers, srvConfig, srvZones>>

\* zone.backup(directory)
Backup ==
    \E opened \in BOOLEAN :
      \E resp \in AnswersIf(opened /\ ~Truthy(pdnsZone.details), DetailsAnswers) :
        LET r == backup(pdnsZone, opened, resp)
        IN  /\ pdnsZone' = r.zone
            /\ Done("backup", PyBool(opened), r.reqs, r.out, r.written)
            /\ UNCHANGED <<epServers, srvConfig, srvZones>>

\* client.request(path, method): the HTTP library hands back a response
Request ==
    \E method \in {"GET", "POST"}, status_code \in Statuses, body \in Bodies :
        LET response == Response(status_code, body, Url("path", <<>>))
        IN  /\ Done("request", response, <<>>, request(response), <<method>>)
            /\ UNCHANGED <<epServers, srvConfig, srvZones, pdnsZone>>

NextClient == Request

NextServer ==
    \/ Servers
    \/ Config
    \/ Zones
    \/ GetZone
    \/ SuggestZone
    \/ CreateZone
    \/ DeleteZone
    \/ RestoreZone

NextZone ==
    \/ Details
    \/ CreateRecords
    \/ DeleteRecords

\* the calls on the endpoint and the server
SpecServer == Init /\ [][NextServer]_vars
\* the calls on one zone object
SpecZone == InitZone /\ [][NextZone]_vars

\* the record mutations on a zone of a program holding other caches
NextFrame ==
    \/ CreateRecords
    \/ DeleteRecords

SpecFrame == InitFrame /\ [][NextFrame]_vars

\* the four cached reads, and the backup that reads through details
NextReads ==
    \/ Servers
    \/ Config
    \/ Zones
    \/ Details
    \/ Backup

SpecReads == InitZone /\ [][NextReads]_vars

\* the requests of the API client
SpecClient == Init /\ [][NextClient]_vars

SpecRRSet == InitRRSet /\ [][NextRRSet]_vars

\* ------------------------------------------------------- claims on RRSet
\* the last character of s is "."
EndsInDot(s) == Len(s) > 0 /\ s[Len(s)] = "."

\* the errors the two classes raise for a name that is not canonical
CanonicalErrors == {"ValueError", "PDNSCanonicalError"}
\* the errors the two constructors raise for a malformed records element
ValidationErrors == {"ValidationError", "ValueError"}

EnsureCalled == rrCall.op = "ensure_canonical"

\* C4: ensure_canonical(z) raises the canonical error when z does not end in
\* '.'; when z ends in '.' it returns and the name ends in '.' afterwards.
C4_EnsureCanonicalZoneCheck ==
    EnsureCalled =>
        IF EndsInDot(rrCall.zone)
        THEN rrCall.out.ok /\ EndsInDot(rr.name)
        ELSE ~rrCall.out.ok /\ rrCall.out.err \in CanonicalErrors

C4_Witness ==
    /\ EnsureCalled
    /\ EndsInDot(rrCall.zone)
    /\ ~EndsInDot(rrCall.before.name)
    /\ EndsInDot(rr.name)

\* C5: a name that already ends in '.' is left unchanged by a successful
\* ensure_canonical, and a second ensure_canonical with the same zone changes
\* neither the name nor the records.
C5_EnsureCanonicalIdempotent ==
    (EnsureCalled /\ rrCall.out.ok) =>
        /\ EndsInDot(rrCall.before.name) => rr.name = rrCall.before.name
        /\ rrCall.rel = "same" =>
              /\ rr.name = rrCall.before.name
              /\ rr.records = rrCall.before.records

C5_Witness ==
    /\ EnsureCalled
    /\ rrCall.out.ok
    /\ rrCall.rel = "same"
    /\ rr.rtype = "CNAME"
    /\ Len(rr.records) > 0
    /\ Len(rr.name) > Len(rrCall.zone)

\* C6: a successful ensure_canonical(z) appends "." + z to every content of a
\* CNAME RRSet that does not end in '.', leaves the other contents alone,
\* changes no content of an RRSet of another type, and turns a name n that
\* does not end in '.' into n + "." + z.
C6_EnsureCanonicalRewrites ==
    (EnsureCalled /\ rrCall.out.ok) =>
        LET old == rrCall.before
            z == rrCall.zone
        IN  /\ ~EndsInDot(old.name) => rr.name = old.name \o <<".">> \o z
            /\ Len(rr.records) = Len(old.records)
            /\ rr.rtype = old.rtype
            /\ IF old.rtype = "CNAME"
               THEN \A i \in 1..Len(old.records) :
                      /\ rr.records[i].disabled = old.records[i].disabled
                      /\ EndsInDot(rr.records[i].content)
                      /\ rr.records[i].content =
                            IF EndsInDot(old.records[i].content)
                            THEN old.records[i].content
                            ELSE old.records[i].content \o <<".">> \o z
               ELSE rr.records = old.records

C6_Witness ==
    /\ EnsureCalled
    /\ rrCall.out.ok
    /\ rrCall.before.rtype = "CNAME"
    /\ Len(rr.records) = 2
    /\ ~EndsInDot(rrCall.before.records[1].content)
    /\ EndsInDot(rrCall.before.records[2].content)
    /\ ~EndsInDot(rrCall.before.name)

Constructed == rrCall.op = "init"

\* the element shapes the constructor documents, and what each becomes
IsPair(v) == v.py = "seq" /\ Len(v.items) = 2
IsPlainMapping(v) == v.py = "dict" /\ "content" \in v.keys /\ v.keys \subseteq KnownKeys
HasExtraKey(v) == v.py = "dict" /\ ~(v.keys \subseteq KnownKeys)
Documented(v) == v.py = "str" \/ IsPair(v) \/ IsPlainMapping(v)
Normalized(v) ==
    IF v.py = "str" THEN Rec(v.s, FALSE, FALSE)
    ELSE IF v.py = "seq" THEN Rec(v.items[1].s, v.items[2].b, FALSE)
    ELSE Rec(v.content, IF "disabled" \in v.keys THEN v.disabled ELSE FALSE, FALSE)
Elements == {rrArgs.records[i] : i \in 1..Len(rrArgs.records)}

\* C7: construction turns a str, a pair and a mapping over content / disabled
\* into Records, element by element and in order, and fails with the
\* validation error when an element has any other shape.  (Mappings with
\* further keys and Record instances are left to C8 and C9.)
C7_ConstructionNormalizes ==
    (Constructed /\ \A v \in Elements : ~HasExtraKey(v) /\ v.py # "Record") =>
        IF \A v \in Elements : Documented(v)
        THEN /\ rrCall.out.ok
             /\ rr.records = [i \in 1..Len(rrArgs.records) |-> Normalized(rrArgs.records[i])]
        ELSE /\ ~rrCall.out.ok
             /\ rrCall.out.err \in ValidationErrors

\* C8: a mapping with any key besides content and disabled makes the
\* construction fail with the validation error, and no RRSet is produced.
C8_ExtraKeyRejected ==
    (/\ Constructed
     /\ \E v \in Elements : HasExtraKey(v)
     /\ \A w \in Elements : HasExtraKey(w) \/ Documented(w)) =>
        /\ ~rrCall.out.ok
        /\ rrCall.out.err \in ValidationErrors
        /\ rr = PyNone

\* C9: models.RRSet accepts a list of Record instances and keeps them, in
\* content, disabled flag and order.
C9_RecordInstancesAccepted ==
    (Constructed /\ rrArgs.cls = "pydantic" /\ \A v \in Elements : v.py = "Record") =>
        /\ rrCall.out.ok
        /\ rr.records = [i \in 1..Len(rrArgs.records) |->
                           Rec(rrArgs.records[i].content, rrArgs.records[i].disabled, FALSE)]

\* ------------------------------------------------------ claims on the caches
\* the call was answered by exactly one GET of url
OneGet(call, url) ==
    /\ Len(call.reqs) = 1
    /\ call.reqs[1].method = "GET"
    /\ call.reqs[1].url = url
\* the call handed its caller what that GET was answered
ReturnsAnswer(call) ==
    IF call.reqs[1].resp.ok
    THEN call.out.ok /\ call.out.val = call.reqs[1].resp.val
    ELSE call.out = call.reqs[1].resp

Returned(brief) == brief.res # "raised"

DetailsAfterRecords ==
    /\ prevCall.op \in {"create_records", "delete_records"}
    /\ Returned(prevCall)
    /\ lastCall.op = "details"

\* C1: the details read that follows a create_records or delete_records that
\* returned issues one GET to the zone's URL and hands back that answer.
C1_DetailsRefetchedAfterRecords ==
    DetailsAfterRecords =>
        /\ OneGet(lastCall, [kind |-> "zone", name |-> pdnsZone.name])
        /\ ReturnsAnswer(lastCall)

C1_Witness ==
    /\ DetailsAfterRecords
    /\ prevCall.cached = [py |-> "dict", id |-> 1]
    /\ lastCall.out.ok
    /\ lastCall.out.val = [py |-> "dict", id |-> 2]
    /\ Len(lastCall.reqs) = 1

ZonesUrl == [kind |-> "zones", name |-> <<>>]

\* C2 as stated: the zones read that follows any create_zone (create or update
\* mode, whatever the transport answered) or delete_zone that returned issues
\* a new GET of the zone list.
C2_ZonesRefetchedAfterAnyCreate ==
    (/\ prevCall.op \in {"create_zone", "update_zone", "delete_zone"}
     /\ Returned(prevCall)
     /\ lastCall.op = "zones") =>
        OneGet(lastCall, ZonesUrl)

\* the zones read handed its caller one PDNSZone per element of the answer
ReturnsAnswerList ==
    lastCall.reqs[1].resp.ok =>
        /\ lastCall.out.ok
        /\ Len(lastCall.out.val.items) = Len(lastCall.reqs[1].resp.val.items)
        /\ \A i \in 1..Len(lastCall.out.val.items) :
              lastCall.out.val.items[i].name = lastCall.reqs[1].resp.val.items[i].name

ZonesAfterZoneChange ==
    /\ \/ prevCall.op \in {"create_zone", "update_zone"} /\ prevCall.res = "value"
       \/ prevCall.op = "delete_zone" /\ Returned(prevCall)
    /\ lastCall.op = "zones"

\* C2 amended: the zones read that follows a create_zone that returned a zone
\* (the transport answered a non-empty body) or a delete_zone that returned
\* issues a new GET of the zone list.
C2_ZonesRefetchedAfterZoneChange ==
    ZonesAfterZoneChange => OneGet(lastCall, ZonesUrl) /\ ReturnsAnswerList

C2_Witness ==
    /\ ZonesAfterZoneChange
    /\ prevCall.op = "create_zone"
    /\ lastCall.out.ok
    /\ Len(lastCall.out.val.items) = 2

\* C3: a read that follows a read of the same cache that returned issues no
\* GET, whatever value the first read fetched.
C3_SecondReadIsCached ==
    (/\ lastCall.op \in {"servers", "config", "zones"}
     /\ prevCall.op = lastCall.op
     /\ Returned(prevCall)) =>
        lastCall.reqs = <<>>

\* n is a suffix of r
IsSuffixOf(n, r) == \E k \in 0..Len(r) : SubSeq(r, k + 1, Len(r)) = n

\* C10: suggest_zone(r) raises the canonical error when r does not end in '.';
\* otherwise, self.zones having answered, it returns the first of the longest
\* zones of self.zones whose name is a suffix of r, and None exactly when no
\* zone name is a suffix of r.
C10_SuggestZoneLongestSuffix ==
    lastCall.op = "suggest_zone" =>
        LET r == lastCall.arg.s
        IN  IF ~EndsInDot(r)
            THEN lastCall.out = [ok |-> FALSE, err |-> "PDNSCanonicalError"]
            ELSE IF lastCall.reqs # <<>> /\ ~lastCall.reqs[1].resp.ok
            THEN OneGet(lastCall, ZonesUrl) /\ lastCall.out = lastCall.reqs[1].resp
            ELSE LET items == srvZones.items
                     hits == {i \in 1..Len(items) : IsSuffixOf(items[i].name, r)}
                 IN  /\ lastCall.out.ok
                     /\ lastCall.out.val = PyNone <=> hits = {}
                     /\ lastCall.out.val # PyNone =>
                          LET i == lastCall.out.val.at
                          IN  /\ i \in hits
                              /\ lastCall.out.val.name = items[i].name
                              /\ \A k \in hits :
                                    /\ Len(items[k].name) <= Len(items[i].name)
                                    /\ Len(items[k].name) = Len(items[i].name) => i <= k

C10_Witness ==
    /\ lastCall.op = "suggest_zone"
    /\ lastCall.out.ok
    /\ lastCall.out.val # PyNone
    /\ lastCall.out.val.at = 2
    /\ IsSuffixOf(srvZones.items[1].name, lastCall.arg.s)
    /\ Len(srvZones.items[1].name) < Len(srvZones.items[2].name)
\* ------------------------------------------------ claims on the record PATCH
RecordsCall == lastCall.op \in {"create_records", "delete_records"}

\* C11: a create_records / delete_records call that returned issued exactly
\* one request, a PATCH to the zone's URL, whose rrsets holds one entry per
\* RRSet of the input, in the order of the input.
C11_OnePatchForTheWholeList ==
    (RecordsCall /\ lastCall.out.ok) =>
        LET in == lastCall.arg.items
        IN  /\ Len(lastCall.reqs) = 1
            /\ lastCall.reqs[1].method = "PATCH"
            /\ lastCall.reqs[1].url = [kind |-> "zone", name |-> pdnsZone.name]
            /\ Len(lastCall.reqs[1].body.rrsets) = Len(in)
            /\ \A i \in 1..Len(in) :
                  LET e == lastCall.reqs[1].body.rrsets[i]
                  IN  /\ e.type = in[i].rtype
                      /\ Len(e.records) = Len(in[i].records)
                      /\ \E k \in 0..Len(e.name) : SubSeq(e.name, 1, k) = in[i].name

C11_Witness ==
    /\ RecordsCall
    /\ lastCall.out.ok
    /\ Len(lastCall.arg.items) = 2
    /\ lastCall.arg.items[1].rtype # lastCall.arg.items[2].rtype
    /\ Len(lastCall.reqs) = 1

\* C12: every RRSet in a PATCH body of create_records carries changetype
\* REPLACE, every RRSet in a PATCH body of delete_records changetype DELETE,
\* and all of them a name that ends in '.', whatever the caller had set.
C12_BodyChangetypeAndName ==
    RecordsCall =>
        \A q \in 1..Len(lastCall.reqs) :
            \A i \in 1..Len(lastCall.reqs[q].body.rrsets) :
                LET e == lastCall.reqs[q].body.rrsets[i]
                IN  /\ e.changetype = IF lastCall.op = "create_records"
                                      THEN "REPLACE" ELSE "DELETE"
                    /\ EndsInDot(e.name)

C12_Witness ==
    /\ lastCall.op = "delete_records"
    /\ Len(lastCall.reqs) = 1
    /\ Len(lastCall.arg.items) = 2
    /\ lastCall.arg.items[1].changetype = "REPLACE"
    /\ ~EndsInDot(lastCall.arg.items[2].name)
    /\ lastCall.reqs[1].body.rrsets[1].changetype = "DELETE"
    /\ EndsInDot(lastCall.reqs[1].body.rrsets[2].name)

\* C13: the wire form of an RRSet has exactly the keys name, type, ttl,
\* changetype, records and comments, every record exactly the keys content
\* and disabled, and comments is empty when none were given.
C13_WireFields ==
    rrCall.op = "serialize" =>
        LET w == rrCall.out.val
        IN  /\ w.keys = {"name", "type", "ttl", "changetype", "records", "comments"}
            /\ \A i \in 1..Len(w.records) : w.records[i].keys = {"content", "disabled"}
            /\ w.comments = <<>>
\* ------------------------------------------------- claims on the client
Requested == lastCall.op = "request"
NamesError(body) == body.kind = "object" /\ body.keys \cap {"error", "errors"} # {}
FieldOf(body) ==
    [text |-> "field", key |-> IF "error" \in body.keys THEN "error" ELSE "errors"]
RaisedPDNSError(message) ==
    /\ ~lastCall.out.ok
    /\ lastCall.out.err = "PDNSError"
    /\ lastCall.out.url = lastCall.arg.url
    /\ lastCall.out.status_code = lastCall.arg.status_code
    /\ lastCall.out.message = message

\* C14 as stated: 200 and 201 return the parsed body, 204 the empty string,
\* every other status raises PDNSError with the URL, the status and as message
\* 'Not found' for 404, else the body's error field, else its errors field,
\* else the raw text of the response.
C14_StatusMappingTextFallback ==
    Requested =>
        LET st == lastCall.arg.status_code
            body == lastCall.arg.body
        IN  IF st \in {200, 201}
            THEN body.kind # "text" => lastCall.out = [ok |-> TRUE, val |-> body]
            ELSE IF st = 204 THEN lastCall.out = [ok |-> TRUE, val |-> [py |-> "str", s |-> <<>>]]
            ELSE IF st = 404 THEN RaisedPDNSError([text |-> "Not found", key |-> ""])
            ELSE IF NamesError(body) THEN RaisedPDNSError(FieldOf(body))
            ELSE RaisedPDNSError([text |-> "response.text", key |-> ""])

\* the parsed body can be searched for the keys and holds neither
HoldsNeither(body) ==
    \/ body.kind = "object" /\ body.keys \cap {"error", "errors"} = {}
    \/ body.kind \in {"list", "str"}

\* C14 amended: as above, but a parsed body that holds neither key gives the
\* message 'No error message found'; the raw text is the message only when
\* the body is no JSON or the keys cannot be looked up in it; and a 200 / 201
\* body that is no JSON lets the decoder's error through.
C14_StatusMapping ==
    Requested =>
        LET st == lastCall.arg.status_code
            body == lastCall.arg.body
        IN  IF st \in {200, 201}
            THEN IF body.kind = "text"
                 THEN lastCall.out = [ok |-> FALSE, err |-> "JSONDecodeError"]
                 ELSE lastCall.out = [ok |-> TRUE, val |-> body]
            ELSE IF st = 204 THEN lastCall.out = [ok |-> TRUE, val |-> [py |-> "str", s |-> <<>>]]
            ELSE IF st = 404 THEN RaisedPDNSError([text |-> "Not found", key |-> ""])
            ELSE IF NamesError(body) THEN RaisedPDNSError(FieldOf(body))
            ELSE IF HoldsNeither(body)
            THEN RaisedPDNSError([text |-> "No error message found", key |-> ""])
            ELSE RaisedPDNSError([text |-> "response.text", key |-> ""])

C14_Witness ==
    /\ Requested
    /\ lastCall.arg.status_code = 404
    /\ "error" \in lastCall.arg.body.keys
    /\ ~lastCall.out.ok
    /\ lastCall.out.message.text = "Not found"
    /\ prevCall.op = "request"
    /\ prevCall.res = "empty"
\* ------------------------------------------ claims on the server's mutations
\* C15: restore_zone raises nothing when the creation fails: a POST that the
\* transport fails or answers with nothing gives None, an answered POST the
\* new zone; either way the zone cache is reset and the posted data carries
\* an empty nameservers list.
C15_RestoreZoneSwallowsFailure ==
    (lastCall.op = "restore_zone" /\ lastCall.arg # PyNone) =>
        LET post == lastCall.reqs[1]
        IN  /\ Len(lastCall.reqs) = 1
            /\ post.method = "POST"
            /\ post.url = ZonesUrl
            /\ post.body.nameservers = <<>>
            /\ srvZones = PyNone
            /\ lastCall.out.ok
            /\ IF post.resp.ok /\ Truthy(post.resp.val)
               THEN lastCall.out.val = PDNSZone(post.resp.val)
               ELSE lastCall.out.val = PyNone

\* C15 as the code has it: a restore_zone whose POST the transport fails
\* raises that error; one the transport answers with nothing gives None, an
\* answered one the new zone; in all three cases the zone cache is reset and
\* the posted data carries an empty nameservers list.
C15_RestoreZonePropagatesError ==
    (lastCall.op = "restore_zone" /\ lastCall.arg # PyNone) =>
        LET post == lastCall.reqs[1]
        IN  /\ Len(lastCall.reqs) = 1
            /\ post.method = "POST"
            /\ post.url = ZonesUrl
            /\ post.body = [lastCall.arg EXCEPT !.nameservers = <<>>]
            /\ srvZones = PyNone
            /\ IF ~post.resp.ok THEN lastCall.out = post.resp
               ELSE IF Truthy(post.resp.val)
               THEN lastCall.out = Ok(PDNSZone(post.resp.val))
               ELSE lastCall.out = Ok(PyNone)

C15_Witness ==
    /\ prevCall.op = "zones"
    /\ prevCall.res = "value"
    /\ lastCall.op = "restore_zone"
    /\ lastCall.arg # PyNone
    /\ lastCall.arg.nameservers # <<>>
    /\ ~lastCall.out.ok
    /\ lastCall.out.err = "PDNSError"
    /\ srvZones = PyNone

\* the requests of the last call that use method
Issued(method) == {q \in 1..Len(lastCall.reqs) : lastCall.reqs[q].method = method}

\* C16: create_zone with update set and a name that self.zones lists issues
\* one PATCH to that zone and no POST; without update one POST to the zone
\* collection and no PATCH; a non-empty answer gives a PDNSZone, an empty one None.
C16_CreateZoneRequests ==
    /\ (/\ lastCall.op = "update_zone"
        /\ srvZones # PyNone
        /\ \E i \in 1..Len(srvZones.items) : srvZones.items[i].name = lastCall.arg.s) =>
            /\ Cardinality(Issued("PATCH")) = 1
            /\ Issued("POST") = {}
            /\ \A q \in Issued("PATCH") :
                  /\ lastCall.reqs[q].url.kind = "zone"
                  /\ lastCall.reqs[q].resp.ok =>
                        /\ lastCall.out.ok
                        /\ lastCall.out.val.py =
                              IF Truthy(lastCall.reqs[q].resp.val) THEN "PDNSZone" ELSE "None"
    /\ lastCall.op = "create_zone" =>
            /\ Cardinality(Issued("POST")) = 1
            /\ Issued("PATCH") = {}
            /\ \A q \in Issued("POST") :
                  /\ lastCall.reqs[q].url = ZonesUrl
                  /\ lastCall.reqs[q].resp.ok =>
                        /\ lastCall.out.ok
                        /\ lastCall.out.val.py =
                              IF Truthy(lastCall.reqs[q].resp.val) THEN "PDNSZone" ELSE "None"

\* C17: delete_zone leaves the zone cache reset whether the DELETE of
\* {server.url}/zones/{name} is answered or fails, and the zones read that
\* follows issues a new GET.
C17_DeleteZoneInvalidatesFirst ==
    /\ lastCall.op = "delete_zone" =>
            /\ srvZones = PyNone
            /\ Len(lastCall.reqs) = 1
            /\ lastCall.reqs[1].method = "DELETE"
            /\ lastCall.reqs[1].url = [kind |-> "zone", name |-> lastCall.arg.s]
            /\ lastCall.out = lastCall.reqs[1].resp
    /\ (prevCall.op = "delete_zone" /\ lastCall.op = "zones") =>
            OneGet(lastCall, ZonesUrl)

C17_Witness ==
    /\ prevCall.op = "delete_zone"
    /\ prevCall.res = "raised"
    /\ lastCall.op = "zones"
    /\ Len(lastCall.reqs) = 1
    /\ lastCall.out.ok
    /\ Len(lastCall.out.val.items) = 2
\* ------------------------------------------------- claims on the zone's caches
\* C18: the details cache of a zone is the same right after backup as right
\* before it; a cache that was unset is still unset.
C18_BackupLeavesCache ==
    lastCall.op = "backup" => pdnsZone.details = lastCall.cached

\* C18 as the code has it: backup reads the zone through details.  A cache
\* holding a non-empty value holds it afterwards and no request is issued; an
\* unset or empty cache is fetched with one GET of the zone and holds the
\* answer, and is left as it was only when that GET raises or the file could
\* not be opened (nothing is requested then).  backup never resets the cache.
C18_BackupReadsThroughDetails ==
    lastCall.op = "backup" =>
        IF Truthy(lastCall.cached) \/ ~lastCall.arg.b
        THEN /\ pdnsZone.details = lastCall.cached
             /\ lastCall.reqs = <<>>
        ELSE /\ OneGet(lastCall, [kind |-> "zone", name |-> pdnsZone.name])
             /\ IF lastCall.reqs[1].resp.ok
                THEN /\ pdnsZone.details = lastCall.reqs[1].resp.val
                     /\ lastCall.after = <<lastCall.reqs[1].resp.val>>
                ELSE /\ pdnsZone.details = lastCall.cached
                     /\ lastCall.out = lastCall.reqs[1].resp

C18_Witness ==
    /\ lastCall.op = "backup"
    /\ prevCall.op = "details"
    /\ prevCall.res = "raised"
    /\ lastCall.cached = PyNone
    /\ lastCall.out.ok
    /\ pdnsZone.details = Blob(2)
\* C19: create_records and delete_records on a zone touch no cache but that
\* zone's details: the endpoint's servers, the server's config and zones,
\* and the details of every zone the server lists are as before the call,
\* whether the call returned or raised; the zone's own details are reset
\* only by a call that came to issue its PATCH.
C19_RecordsFrame ==
    [][lastCall'.op \in {"create_records", "delete_records"} =>
          /\ epServers' = epServers
          /\ srvConfig' = srvConfig
          /\ srvZones' = srvZones
          /\ pdnsZone'.name = pdnsZone.name
          /\ pdnsZone'.details \in {PyNone, pdnsZone.details}]_vars

C19_Witness ==
    /\ lastCall.op \in {"create_records", "delete_records"}
    /\ ~lastCall.out.ok
    /\ lastCall.reqs # <<>>
    /\ lastCall.cached = Blob(1)
    /\ pdnsZone.details = PyNone
    /\ epServers = PyList(<<"localhost">>)
    /\ srvConfig = PyList(<<"c1">>)
    /\ srvZones # PyNone
    /\ Len(srvZones.items) = 2
    /\ srvZones.items[1].details = Blob(1)
\* the four cached reads, and the resource each one fetches
Reads == {"servers", "config", "zones", "details"}
FetchedBy(op, zone) ==
    IF op = "details" THEN [kind |-> "zone", name |-> zone.name]
    ELSE [kind |-> op, name |-> <<>>]
\* the call issued a GET that the transport failed
FetchFailed(call) == call.reqs # <<>> /\ ~call.reqs[1].resp.ok

\* C20: a read (details, zones, config, servers) whose GET the transport
\* fails raises that very error and leaves every cache as it was, an unset
\* one unset; the same read made next issues the GET again; and a cache
\* changes in a read only when that read's own GET was answered.
C20_FailedFetchStoresNothing ==
    [][/\ (lastCall'.op \in Reads /\ FetchFailed(lastCall')) =>
            /\ lastCall'.out = lastCall'.reqs[1].resp
            /\ OneGet(lastCall', FetchedBy(lastCall'.op, pdnsZone))
            /\ epServers' = epServers
            /\ srvConfig' = srvConfig
            /\ srvZones' = srvZones
            /\ pdnsZone' = pdnsZone
       /\ (/\ lastCall'.op \in Reads
           /\ prevCall'.op = lastCall'.op
           /\ prevCall'.res = "raised") =>
            OneGet(lastCall', FetchedBy(lastCall'.op, pdnsZone))
       /\ (lastCall'.op \in Reads /\ <<epServers, srvConfig, srvZones, pdnsZone>>' #
                                        <<epServers, srvConfig, srvZones, pdnsZone>>) =>
            /\ OneGet(lastCall', FetchedBy(lastCall'.op, pdnsZone))
            /\ lastCall'.reqs[1].resp.ok]_vars

C20_Witness ==
    /\ prevCall.op = "zones"
    /\ prevCall.res = "raised"
    /\ lastCall.op = "zones"
    /\ FetchFailed(lastCall)
    /\ srvZones = PyNone
    /\ Truthy(epServers)
    /\ pdnsZone.details = PyNone
\* ------------------------------------- claims on repeated ensure_canonical
\* an ensure_canonical(z2) that returned, made right after an
\* ensure_canonical(z1) that appended z1 to a name not ending in '.', z1 # z2
SecondZone ==
    /\ EnsureCalled
    /\ rrCall.out.ok
    /\ rrCall.grew.did
    /\ rrCall.grew.zone # rrCall.zone

\* C21: after ensure_canonical(z1) and then ensure_canonical(z2) with another
\* zone, a name that did not end in '.' carries both suffixes: it differs
\* from the name ensure_canonical(z1) alone left.
C21_SecondZoneAppendsAgain ==
    SecondZone => rr.name # rrCall.before.name

\* C21 as the code has it: the name ensure_canonical(z1) left ends in '.', so
\* ensure_canonical(z2) leaves it as it is; it carries the suffix z1 alone,
\* and the records are as ensure_canonical(z1) left them too.
C21_SecondZoneChangesNothing ==
    SecondZone =>
        /\ rr.name = rrCall.before.name
        /\ rr.name = rrCall.grew.name \o <<".">> \o rrCall.grew.zone
        /\ rr.records = rrCall.before.records

C21_Witness ==
    /\ SecondZone
    /\ rrCall.grew.name = <<"a">>
    /\ rrCall.grew.zone = <<".">>
    /\ rrCall.zone = <<"a", ".">>
    /\ rr.name = <<"a", ".", ".">>
    /\ rr.rtype = "CNAME"
    /\ Len(rr.records) > 0
\* C22: create_records and delete_records on a zone whose name does not end
\* in '.', given a list that is not empty, raise the canonical error, issue
\* no PATCH, leave the zone's details as they were and leave every rrset of
\* the list (name, records, changetype) as the caller gave it.
C22_CanonicalFailureChangesNothing ==
    (/\ RecordsCall
     /\ ~EndsInDot(pdnsZone.name)
     /\ lastCall.arg.items # <<>>) =>
        /\ ~lastCall.out.ok
        /\ lastCall.out.err \in CanonicalErrors
        /\ lastCall.reqs = <<>>
        /\ pdnsZone.details = lastCall.cached
        /\ lastCall.after = lastCall.arg.items

C22_Witness ==
    /\ lastCall.op = "create_records"
    /\ ~EndsInDot(pdnsZone.name)
    /\ Len(lastCall.arg.items) = 2
    /\ lastCall.arg.items[1].changetype = "DELETE"
    /\ ~EndsInDot(lastCall.arg.items[1].name)
    /\ lastCall.out = Raise("PDNSCanonicalError")
    /\ lastCall.cached = Blob(1)
    /\ pdnsZone.details = Blob(1)
====
